---- MODULE Spec2Model ----
(***************************************************************************)
(* A model of js/main.js: the page script that builds the starfield,       *)
(* reveals elements on scroll, toggles the header's "scrolled" flag,       *)
(* opens and closes the mobile menu and smooth-scrolls to anchor targets.  *)
(* The state is the part of the DOM and of the window the script reads or  *)
(* writes; there is one action per browser event the script listens to.    *)
(***************************************************************************)
EXTENDS Integers, Sequences, FiniteSets, TLC

(***************************************************************************)
(* Bounds of the model.                                                    *)
(***************************************************************************)
NumReveal == 2          \* number of .reveal elements in the document
MaxClickRun == 4        \* longest run of consecutive hamburger clicks followed

(***************************************************************************)
(* Constants of the program.                                               *)
(***************************************************************************)
StarBreakpoint == 768   \* createStars: window.innerWidth < 768
SmallStarCount == 100
LargeStarCount == 200
elementVisible == 150   \* reveal
ScrolledOffset == 50    \* handleScroll: window.scrollY > 50
headerOffset == 70      \* anchor click listener
MenuBreakpoint == 968   \* resize listener: window.innerWidth > 968

(***************************************************************************)
(* The document and the window values the events are drawn from.           *)
(***************************************************************************)
\* querySelector finding no element: no element has the empty id.
Null == << >>

\* The elements the script looks up by class; any of them may be missing.
ClassSelectors == {".stars", ".header", ".hamburger", ".mobile-menu"}

\* [innerWidth, innerHeight] pairs the window can take, on both sides of
\* each breakpoint.
Viewports ==
    { <<StarBreakpoint - 1, 450>>, <<StarBreakpoint, 450>>,
      <<MenuBreakpoint, 600>>, <<MenuBreakpoint + 1, 600>> }

\* Scroll offsets, on both sides of the header threshold.
ScrollYs == {0, ScrolledOffset, ScrolledOffset + 1, 300}

RevealIds == 1..NumReveal

\* Distance of the i-th .reveal element from the top of the document.
RevealDocTop(i) == 300 * i

\* Elements that carry an id, and their distance from the top of the document.
ElementIds == { <<"a">>, <<"1">> }
IdDocTop(id) == IF id = <<"a">> THEN 300 ELSE 600

\* The <a> elements of the document: href as a sequence of characters, and
\* whether the link sits inside .mobile-menu-list.
Links ==
    { [href |-> <<"#">>,      inMenu |-> FALSE],
      [href |-> <<"#", "a">>, inMenu |-> FALSE],
      [href |-> <<"#", "a">>, inMenu |-> TRUE],
      [href |-> <<"#", "b">>, inMenu |-> FALSE],
      [href |-> <<"#", "1">>, inMenu |-> FALSE],
      [href |-> <<"h">>,      inMenu |-> TRUE] }

\* The link of an event that is no click.
NoLink == [href |-> << >>, inMenu |-> FALSE]

\* An event that is no click on a link.
Event(t) == [type |-> t, link |-> NoLink, prevented |-> FALSE]

AllListeners == {"hamburger", "links", "anchors", "scroll", "load", "resize"}

VARIABLES
    dom,            \* the class selectors that match an element
    listeners,      \* the listeners the script registered
    innerWidth, innerHeight, scrollY,   \* window
    hamburgerClass, \* flag classes of .hamburger
    menuClass,      \* flag classes of .mobile-menu
    bodyOverflow,   \* document.body.style.overflow
    headerClass,    \* flag classes of .header
    revealClass,    \* flag classes of each .reveal element
    stars,          \* number of "star" children of .stars
    loaded,         \* the load event has been dispatched
    requests,       \* window.scrollTo calls of the most recent event
    faults,         \* listeners of the most recent event that threw
    lastEvent,      \* the most recent event
    handledScroll,  \* the scroll listener ran for some scroll event
    everInside,     \* reveal() has run with the element inside the threshold
    prevMenu,       \* menu state before the most recent event
    clickRun,       \* consecutive hamburger clicks up to now
    runStart        \* menu state before the first click of the run

vars == << dom, listeners, innerWidth, innerHeight, scrollY, hamburgerClass,
           menuClass, bodyOverflow, headerClass, revealClass, stars, loaded,
           requests, faults, lastEvent, handledScroll, everInside, prevMenu,
           clickRun, runStart >>

(***************************************************************************)
(* classList                                                               *)
(***************************************************************************)
ClassAdd(cl, c) == cl \cup {c}
ClassRemove(cl, c) == cl \ {c}
ClassToggle(cl, c) == IF c \in cl THEN cl \ {c} ELSE cl \cup {c}
ClassContains(cl, c) == c \in cl

(***************************************************************************)
(* createStars                                                             *)
(***************************************************************************)
\* Variant: the small starfield also at the breakpoint itself.
starCount_AtMost(w) ==
    IF w <= StarBreakpoint THEN SmallStarCount ELSE LargeStarCount

starCount(w) == IF w < StarBreakpoint THEN SmallStarCount ELSE LargeStarCount

\* for (let i = 0; i < starCount; i++) starsContainer.appendChild(star):
\* one child appended for each value i takes.
AppendStars(n, children) == children + Cardinality({i \in 0..(n - 1) : i < n})

\* Variant: a missing container is skipped silently.
createStars_NullGuard(d, w, children) ==
    [threw |-> FALSE,
     stars |-> IF ".stars" \in d THEN AppendStars(starCount(w), children)
               ELSE children]

\* Result of createStars(): it throws at the first appendChild when the
\* container is missing.
createStars(d, w, children) ==
    IF ".stars" \in d
    THEN [threw |-> FALSE, stars |-> AppendStars(starCount(w), children)]
    ELSE [threw |-> TRUE, stars |-> children]

(***************************************************************************)
(* reveal                                                                  *)
(***************************************************************************)
\* getBoundingClientRect().top of the i-th .reveal element
ElementTop(i, sy) == RevealDocTop(i) - sy

\* Variant: the flag follows the element's position in both directions.
reveal_Unreveals(rc, sy, ih) ==
    [i \in RevealIds |->
        IF ElementTop(i, sy) < ih - elementVisible
        THEN ClassAdd(rc[i], "active")
        ELSE ClassRemove(rc[i], "active")]

\* Variant: an element exactly on the line is revealed too.
reveal_OnTheLine(rc, sy, ih) ==
    [i \in RevealIds |->
        IF ElementTop(i, sy) <= ih - elementVisible
        THEN ClassAdd(rc[i], "active")
        ELSE rc[i]]

reveal(rc, sy, ih) ==
    [i \in RevealIds |->
        IF ElementTop(i, sy) < ih - elementVisible
        THEN ClassAdd(rc[i], "active")
        ELSE rc[i]]

(***************************************************************************)
(* handleScroll                                                            *)
(***************************************************************************)
\* Variant: the threshold offset itself counts as scrolled.
handleScroll_AtLeast(d, hc, sy) ==
    IF ".header" \in d
    THEN [threw |-> FALSE,
          header |-> IF sy >= ScrolledOffset
                     THEN ClassAdd(hc, "scrolled")
                     ELSE ClassRemove(hc, "scrolled")]
    ELSE [threw |-> TRUE, header |-> hc]

\* Variant: the flag is toggled past the threshold instead of added.
handleScroll_Toggles(d, hc, sy) ==
    IF ".header" \in d
    THEN [threw |-> FALSE,
          header |-> IF sy > ScrolledOffset
                     THEN ClassToggle(hc, "scrolled")
                     ELSE ClassRemove(hc, "scrolled")]
    ELSE [threw |-> TRUE, header |-> hc]

handleScroll(d, hc, sy) ==
    IF ".header" \in d
    THEN [threw |-> FALSE,
          header |-> IF sy > ScrolledOffset
                     THEN ClassAdd(hc, "scrolled")
                     ELSE ClassRemove(hc, "scrolled")]
    ELSE [threw |-> TRUE, header |-> hc]

(***************************************************************************)
(* Script evaluation: the first addEventListener call throws when          *)
(* .hamburger is missing, and nothing after it is evaluated.               *)
(***************************************************************************)
\* Variant: a missing .hamburger is skipped and the later listeners are
\* still registered.
EvalScript_SkipsMissing(d) ==
    IF ".hamburger" \in d THEN AllListeners ELSE AllListeners \ {"hamburger"}

EvalScript(d) == IF ".hamburger" \in d THEN AllListeners ELSE {}

(***************************************************************************)
(* The menu listeners, as functions of the menu state                      *)
(* [hamburger, menu, overflow].                                            *)
(***************************************************************************)
MenuState == [hamburger |-> hamburgerClass, menu |-> menuClass,
              overflow |-> bodyOverflow]

OverflowFor(mc) == IF ClassContains(mc, "active") THEN "hidden" ELSE ""

\* Variant: the click opens the panel with add instead of toggle.
ToggleMenu_AddsMenu(d, m) ==
    LET h == ClassToggle(m.hamburger, "active") IN
    IF ".mobile-menu" \in d
    THEN LET mc == ClassAdd(m.menu, "active") IN
         [threw |-> FALSE,
          state |-> [hamburger |-> h, menu |-> mc, overflow |-> OverflowFor(mc)]]
    ELSE [threw |-> TRUE, state |-> [m EXCEPT !.hamburger = h]]

\* Variant: the click toggles the panel only.
ToggleMenu_PanelOnly(d, m) ==
    IF ".mobile-menu" \in d
    THEN LET mc == ClassToggle(m.menu, "active") IN
         [threw |-> FALSE,
          state |-> [hamburger |-> m.hamburger, menu |-> mc,
                     overflow |-> OverflowFor(mc)]]
    ELSE [threw |-> TRUE, state |-> m]

\* hamburger click listener
ToggleMenu(d, m) ==
    LET h == ClassToggle(m.hamburger, "active") IN
    IF ".mobile-menu" \in d
    THEN LET mc == ClassToggle(m.menu, "active") IN
         [threw |-> FALSE,
          state |-> [hamburger |-> h, menu |-> mc, overflow |-> OverflowFor(mc)]]
    ELSE [threw |-> TRUE, state |-> [m EXCEPT !.hamburger = h]]

\* Variant: closing forgets to release the scroll lock.
CloseMenu_KeepsLock(d, m) ==
    LET h == ClassRemove(m.hamburger, "active") IN
    IF ".mobile-menu" \in d
    THEN [threw |-> FALSE,
          state |-> [hamburger |-> h,
                     menu |-> ClassRemove(m.menu, "active"),
                     overflow |-> m.overflow]]
    ELSE [threw |-> TRUE, state |-> [m EXCEPT !.hamburger = h]]

\* Variant: closing leaves the hamburger icon in its open state.
CloseMenu_KeepsHamburger(d, m) ==
    IF ".mobile-menu" \in d
    THEN [threw |-> FALSE,
          state |-> [hamburger |-> m.hamburger,
                     menu |-> ClassRemove(m.menu, "active"),
                     overflow |-> ""]]
    ELSE [threw |-> TRUE, state |-> m]

\* body of the mobile-menu link listener and of the resize listener
CloseMenu(d, m) ==
    LET h == ClassRemove(m.hamburger, "active") IN
    IF ".mobile-menu" \in d
    THEN [threw |-> FALSE,
          state |-> [hamburger |-> h,
                     menu |-> ClassRemove(m.menu, "active"),
                     overflow |-> ""]]
    ELSE [threw |-> TRUE, state |-> [m EXCEPT !.hamburger = h]]

\* Variant: the breakpoint is off by one.
OnResize_OffByOne(d, m, w) ==
    IF w > MenuBreakpoint + 1 THEN CloseMenu(d, m)
    ELSE [threw |-> FALSE, state |-> m]

\* Variant: the breakpoint width itself closes the menu.
OnResize_AtBreakpoint(d, m, w) ==
    IF w >= MenuBreakpoint THEN CloseMenu(d, m)
    ELSE [threw |-> FALSE, state |-> m]

\* resize listener
OnResize(d, m, w) ==
    IF w > MenuBreakpoint THEN CloseMenu(d, m) ELSE [threw |-> FALSE, state |-> m]

(***************************************************************************)
(* The anchor click listener.                                              *)
(***************************************************************************)
IsDigit(c) == c \in {"0", "1", "2", "3", "4", "5", "6", "7", "8", "9"}

\* a[href^="#"]
IsHashAnchor(a) == Len(a.href) >= 1 /\ a.href[1] = "#"

\* "#" followed by an identifier is an id selector; an identifier is not
\* empty and does not start with a digit.
ValidSelector(sel) == Len(sel) >= 2 /\ sel[1] = "#" /\ ~IsDigit(sel[2])

\* document.querySelector(href): a SyntaxError for an invalid selector,
\* else the element with that id, or null.
querySelector(sel) ==
    IF ~ValidSelector(sel)
    THEN [threw |-> TRUE, el |-> Null]
    ELSE [threw |-> FALSE,
          el |-> IF Tail(sel) \in ElementIds THEN Tail(sel) ELSE Null]

OnAnchorClick(a, sy) ==
    LET q == querySelector(a.href) IN
    IF q.threw
    THEN [threw |-> TRUE, prevented |-> TRUE, requests |-> << >>]
    ELSE IF q.el # Null
    THEN LET elementPosition == IdDocTop(q.el) - sy
             offsetPosition == elementPosition + sy - headerOffset
         IN [threw |-> FALSE, prevented |-> TRUE,
             requests |-> << [top |-> offsetPosition, behavior |-> "smooth"] >>]
    ELSE [threw |-> FALSE, prevented |-> TRUE, requests |-> << >>]

(***************************************************************************)
(* Initial state: the document as served, after the script was evaluated.  *)
(***************************************************************************)
Init ==
    /\ dom \in SUBSET ClassSelectors
    /\ listeners = EvalScript(dom)
    /\ \E vp \in Viewports : innerWidth = vp[1] /\ innerHeight = vp[2]
    /\ scrollY \in ScrollYs
    /\ hamburgerClass = {}
    /\ menuClass = {}
    /\ bodyOverflow = ""
    /\ headerClass = {}
    /\ revealClass = [i \in RevealIds |-> {}]
    /\ stars = 0
    /\ loaded = FALSE
    /\ requests = << >>
    /\ faults = {}
    /\ lastEvent = Event("none")
    /\ handledScroll = FALSE
    /\ everInside = [i \in RevealIds |-> FALSE]
    /\ prevMenu = [hamburger |-> {}, menu |-> {}, overflow |-> ""]
    /\ clickRun = 0
    /\ runStart = [hamburger |-> {}, menu |-> {}, overflow |-> ""]

\* The menu state kept while no run of hamburger clicks is under way.
NoRun == [hamburger |-> {}, menu |-> {}, overflow |-> ""]

EndRun == clickRun' = 0 /\ runStart' = NoRun

SetMenu(m) ==
    /\ prevMenu' = MenuState
    /\ hamburgerClass' = m.hamburger
    /\ menuClass' = m.menu
    /\ bodyOverflow' = m.overflow

\* reveal() runs at offset sy in a window of height ih (ran), or does not:
\* the elements it then finds above the line ih - 150 are recorded.
NoteReveal(ran, sy, ih) ==
    everInside' =
        [i \in RevealIds |->
            everInside[i] \/ (ran /\ RevealDocTop(i) - sy < ih - 150)]

(***************************************************************************)
(* window "load"                                                           *)
(***************************************************************************)
Load ==
    /\ ~loaded
    /\ loaded' = TRUE
    /\ lastEvent' = Event("load")
    /\ requests' = << >>
    /\ IF "load" \in listeners
       THEN LET c == createStars(dom, innerWidth, stars) IN
            /\ stars' = c.stars
            /\ revealClass' = IF c.threw THEN revealClass
                              ELSE reveal(revealClass, scrollY, innerHeight)
            /\ faults' = IF c.threw THEN {"load"} ELSE {}
            /\ NoteReveal(~c.threw, scrollY, innerHeight)
       ELSE /\ faults' = {}
            /\ UNCHANGED << stars, revealClass, everInside >>
    /\ SetMenu(MenuState)
    /\ EndRun
    /\ UNCHANGED << dom, listeners, innerWidth, innerHeight, scrollY,
                    headerClass, handledScroll >>

(***************************************************************************)
(* window "scroll"                                                         *)
(***************************************************************************)
Scroll(sy) ==
    /\ scrollY' = sy
    /\ lastEvent' = Event("scroll")
    /\ requests' = << >>
    /\ IF "scroll" \in listeners
       THEN LET h == handleScroll(dom, headerClass, sy) IN
            /\ revealClass' = reveal(revealClass, sy, innerHeight)
            /\ headerClass' = h.header
            /\ faults' = IF h.threw THEN {"scroll"} ELSE {}
            /\ handledScroll' = TRUE
            /\ NoteReveal(TRUE, sy, innerHeight)
       ELSE /\ faults' = {}
            /\ UNCHANGED << revealClass, headerClass, handledScroll,
                            everInside >>
    /\ SetMenu(MenuState)
    /\ EndRun
    /\ UNCHANGED << dom, listeners, innerWidth, innerHeight, stars, loaded >>

(***************************************************************************)
(* window "resize"                                                         *)
(***************************************************************************)
Resize(vp) ==
    /\ innerWidth' = vp[1]
    /\ innerHeight' = vp[2]
    /\ lastEvent' = Event("resize")
    /\ requests' = << >>
    /\ IF "resize" \in listeners
       THEN LET r == OnResize(dom, MenuState, vp[1]) IN
            /\ SetMenu(r.state)
            /\ faults' = IF r.threw THEN {"resize"} ELSE {}
       ELSE /\ faults' = {}
            /\ SetMenu(MenuState)
    /\ EndRun
    /\ UNCHANGED << dom, listeners, scrollY, headerClass, revealClass, stars,
                    loaded, handledScroll, everInside >>

(***************************************************************************)
(* click on .hamburger                                                     *)
(***************************************************************************)
HamburgerClick ==
    /\ ".hamburger" \in dom
    /\ "hamburger" \in listeners
    /\ clickRun < MaxClickRun
    /\ LET r == ToggleMenu(dom, MenuState) IN
       /\ SetMenu(r.state)
       /\ faults' = IF r.threw THEN {"hamburger"} ELSE {}
    /\ lastEvent' = Event("hamburger")
    /\ requests' = << >>
    /\ clickRun' = clickRun + 1
    /\ runStart' = IF clickRun = 0 THEN MenuState ELSE runStart
    /\ UNCHANGED << dom, listeners, innerWidth, innerHeight, scrollY,
                    headerClass, revealClass, stars, loaded, handledScroll,
                    everInside >>

(***************************************************************************)
(* click on an <a>: the listeners on it run in the order they were added,  *)
(* the mobile-menu link listener before the anchor listener; a listener    *)
(* that throws does not stop the next one.                                 *)
(***************************************************************************)
\* Variant: the closing listener is registered on every link.
OnMenuLinkClick_AnyLink(a, ls, d, m) ==
    IF "links" \in ls
    THEN CloseMenu(d, m)
    ELSE [threw |-> FALSE, state |-> m]

\* the mobile-menu link listener, when it is registered on the link
OnMenuLinkClick(a, ls, d, m) ==
    IF a.inMenu /\ "links" \in ls
    THEN CloseMenu(d, m)
    ELSE [threw |-> FALSE, state |-> m]

\* the anchor listener, when it is registered on the link
OnHashLinkClick(a, ls, sy) ==
    IF IsHashAnchor(a) /\ "anchors" \in ls
    THEN OnAnchorClick(a, sy)
    ELSE [threw |-> FALSE, prevented |-> FALSE, requests |-> << >>]

LinkClick(a) ==
    /\ SetMenu(OnMenuLinkClick(a, listeners, dom, MenuState).state)
    /\ requests' = OnHashLinkClick(a, listeners, scrollY).requests
    /\ faults' = { f \in {"links", "anchors"} :
                     \/ f = "links"
                        /\ OnMenuLinkClick(a, listeners, dom, MenuState).threw
                     \/ f = "anchors"
                        /\ OnHashLinkClick(a, listeners, scrollY).threw }
    /\ lastEvent' = [type |-> "click", link |-> a,
                     prevented |-> OnHashLinkClick(a, listeners, scrollY).prevented]
    /\ EndRun
    /\ UNCHANGED << dom, listeners, innerWidth, innerHeight, scrollY,
                    headerClass, revealClass, stars, loaded, handledScroll,
                    everInside >>

MenuLinkClick == \E a \in Links : a.inMenu /\ LinkClick(a)

AnchorClick == \E a \in Links : ~a.inMenu /\ LinkClick(a)

Next ==
    \/ Load
    \/ \E sy \in ScrollYs : Scroll(sy)
    \/ \E vp \in Viewports : Resize(vp)
    \/ HamburgerClick
    \/ MenuLinkClick
    \/ AnchorClick

Spec == Init /\ [][Next]_vars

(***************************************************************************)
(* Properties.                                                             *)
(***************************************************************************)
MenuClosed ==
    /\ "active" \notin hamburgerClass
    /\ "active" \notin menuClass
    /\ bodyOverflow = ""

\* C1: page scrolling is locked exactly while the mobile menu is open: body
\* overflow is "hidden" if and only if .mobile-menu carries "active", and
\* is "" otherwise.
C1_ScrollLockIffMenuOpen ==
    bodyOverflow = IF "active" \in menuClass THEN "hidden" ELSE ""

\* The menu was opened, closed by a link or a resize, and the lock released.
C1_Witness ==
    /\ "active" \in prevMenu.menu
    /\ prevMenu.overflow = "hidden"
    /\ lastEvent.type \in {"click", "resize"}
    /\ "active" \notin menuClass
    /\ bodyOverflow = ""

\* C2: after an even number of consecutive hamburger clicks the hamburger
\* flag, the menu flag and body overflow are what they were before the
\* first click of the run.
C2_EvenClicksRestore ==
    (clickRun > 0 /\ clickRun % 2 = 0) =>
        /\ hamburgerClass = runStart.hamburger
        /\ menuClass = runStart.menu
        /\ bodyOverflow = runStart.overflow

\* Four clicks in a row that started from an open menu.
C2_Witness ==
    /\ clickRun = 4
    /\ "active" \in runStart.menu
    /\ runStart.overflow = "hidden"
    /\ "active" \in menuClass

\* C3: after a resize event that leaves innerWidth above 968 the hamburger
\* and the mobile menu lack "active" and body overflow is "", whatever the
\* state before.
C3_ResizeAboveBreakpointCloses ==
    (lastEvent.type = "resize" /\ innerWidth > 968) => MenuClosed

\* A resize above the breakpoint that found the menu open.
C3_Witness ==
    /\ lastEvent.type = "resize"
    /\ innerWidth > 968
    /\ "active" \in prevMenu.menu
    /\ "active" \in prevMenu.hamburger
    /\ prevMenu.overflow = "hidden"
    /\ MenuClosed

\* C4: after a click on a link inside the mobile menu list the menu is
\* closed, and a closed menu stays closed until the next hamburger click.
C4_LinkClickCloses ==
    [][ /\ (lastEvent'.type = "click" /\ lastEvent'.link.inMenu) => MenuClosed'
        /\ (MenuClosed /\ ~MenuClosed') => lastEvent'.type = "hamburger"
      ]_vars

\* A mobile-menu link click that found the menu open.
C4_Witness ==
    /\ lastEvent.type = "click"
    /\ lastEvent.link.inMenu
    /\ "active" \in prevMenu.menu
    /\ "active" \in prevMenu.hamburger
    /\ MenuClosed

\* C5: a handled scroll event that finds a .reveal element's top less than
\* innerHeight - 150 leaves the element "active", and no event ever removes
\* "active" from a .reveal element.
C5_RevealSticks ==
    [][ \A i \in RevealIds :
          /\ ( /\ lastEvent'.type = "scroll"
               /\ "scroll" \in listeners
               /\ RevealDocTop(i) - scrollY' < innerHeight' - 150 )
                => "active" \in revealClass'[i]
          /\ "active" \in revealClass[i] => "active" \in revealClass'[i]
      ]_vars

\* After a scroll, an element that is back below the threshold is still
\* active.
C5_Witness ==
    /\ lastEvent.type = "scroll"
    /\ \E i \in RevealIds :
          /\ "active" \in revealClass[i]
          /\ RevealDocTop(i) - scrollY >= innerHeight - 150

\* C6: once a scroll event has been handled, the header carries "scrolled"
\* if and only if scrollY > 50, scrollY being the offset of the most recent
\* scroll event.
C6_HeaderFollowsScroll ==
    (handledScroll /\ ".header" \in dom) =>
        ("scrolled" \in headerClass <=> scrollY > 50)

\* The flag was set by a scroll just past the offset.
C6_Witness ==
    /\ lastEvent.type = "scroll"
    /\ scrollY = 51
    /\ "scrolled" \in headerClass

\* C7: a click on an in-page anchor (href starting with "#") whose target
\* element exists issues exactly one smooth scroll request, to the target's
\* viewport top + page offset - 70; a click on one whose target is absent
\* issues no request and leaves the scroll position alone. For every href
\* that starts with "#".
C7_AnchorScrollsToTarget ==
    ( /\ lastEvent.type = "click"
      /\ "anchors" \in listeners
      /\ lastEvent.link.href[1] = "#" ) =>
        LET id == Tail(lastEvent.link.href) IN
        IF id \in ElementIds
        THEN requests = << [top |-> (IdDocTop(id) - scrollY) + scrollY - 70,
                            behavior |-> "smooth"] >>
        ELSE requests = << >> /\ lastEvent.prevented

\* C8: one run of createStars on page load appends exactly 100 stars when
\* innerWidth < 768 at that moment and exactly 200 when innerWidth >= 768.
C8_StarCount ==
    (lastEvent.type = "load" /\ "load" \in listeners /\ ".stars" \in dom) =>
        stars = IF innerWidth < 768 THEN 100 ELSE 200

\* The page was loaded at the breakpoint width itself.
C8_Witness ==
    /\ lastEvent.type = "load"
    /\ innerWidth = 768
    /\ stars = 200

\* C9: handling the same scroll event, or the same resize event, a second
\* time changes nothing: the state a handled scroll (resize) leaves is the
\* state the same scroll (resize) handled again yields.
C9_RepeatChangesNothing ==
    /\ (lastEvent.type = "scroll" /\ "scroll" \in listeners) =>
          /\ reveal(revealClass, scrollY, innerHeight) = revealClass
          /\ handleScroll(dom, headerClass, scrollY).header = headerClass
    /\ (lastEvent.type = "resize" /\ "resize" \in listeners) =>
          OnResize(dom, MenuState, innerWidth).state = MenuState

\* A handled scroll that set the header flag and revealed an element.
C9_Witness ==
    /\ lastEvent.type = "scroll"
    /\ "scroll" \in listeners
    /\ "scrolled" \in headerClass
    /\ \E i \in RevealIds : "active" \in revealClass[i]

\* C10, as stated: no handler ever raises a fault, whatever elements the
\* document lacks.
C10_NoFaultEver == faults = {}

\* C10, amended: a handler raises a fault exactly when an element it
\* dereferences is missing or the clicked href is not a valid selector:
\* load without .stars, scroll without .header, hamburger click, mobile-menu
\* link click and resize above 968 without .mobile-menu, anchor click with
\* an href such as "#" or "#1". An absent anchor target is no fault.
C10_FaultsExactlyOnMissing ==
    LET registered == ".hamburger" \in dom
        t == lastEvent.type
        expected ==
            IF ~registered \/ t = "none" THEN {}
            ELSE IF t = "load"
            THEN (IF ".stars" \in dom THEN {} ELSE {"load"})
            ELSE IF t = "scroll"
            THEN (IF ".header" \in dom THEN {} ELSE {"scroll"})
            ELSE IF t = "resize"
            THEN (IF innerWidth > 968 /\ ".mobile-menu" \notin dom
                  THEN {"resize"} ELSE {})
            ELSE IF t = "hamburger"
            THEN (IF ".mobile-menu" \in dom THEN {} ELSE {"hamburger"})
            ELSE LET href == lastEvent.link.href IN
                 (IF lastEvent.link.inMenu /\ ".mobile-menu" \notin dom
                  THEN {"links"} ELSE {})
                 \cup
                 (IF href[1] = "#" /\ (Len(href) = 1 \/ IsDigit(href[2]))
                  THEN {"anchors"} ELSE {})
    IN faults = expected

\* With every element present, a click on an anchor whose target is absent
\* completes without a fault and without a scroll request.
C10_Witness ==
    /\ dom = ClassSelectors
    /\ lastEvent.type = "click"
    /\ lastEvent.link.href = <<"#", "b">>
    /\ faults = {}
    /\ requests = << >>

\* C11: a missing element surfaces as a fault, never as a silent skip.
\* Without .hamburger the script stops at its first addEventListener call:
\* no listener is registered and no event changes a flag or creates a star.
\* Without .stars the load handler faults in createStars before reveal()
\* runs. Without .header every scroll handler faults in handleScroll after
\* reveal() has applied its flags.
C11_MissingElementsFault ==
    /\ [](".hamburger" \notin dom => listeners = {})
    /\ [][ /\ ".hamburger" \notin dom =>
                /\ faults' = {}
                /\ UNCHANGED << hamburgerClass, menuClass, bodyOverflow,
                                headerClass, revealClass, stars >>
           /\ ( /\ lastEvent'.type = "load"
                /\ ".hamburger" \in dom
                /\ ".stars" \notin dom ) =>
                /\ faults' = {"load"}
                /\ UNCHANGED << revealClass, stars >>
           /\ ( /\ lastEvent'.type = "scroll"
                /\ ".hamburger" \in dom
                /\ ".header" \notin dom ) =>
                /\ faults' = {"scroll"}
                /\ \A i \in RevealIds :
                      RevealDocTop(i) - scrollY' < innerHeight' - 150
                         => "active" \in revealClass'[i]
         ]_vars

\* A scroll in a document without .header: the handler faulted, and the
\* element inside the threshold is revealed all the same.
C11_Witness ==
    /\ ".header" \notin dom
    /\ lastEvent.type = "scroll"
    /\ faults = {"scroll"}
    /\ \E i \in RevealIds :
          /\ RevealDocTop(i) - scrollY < innerHeight - 150
          /\ "active" \in revealClass[i]

\* C12: the handlers leave each other's state alone. A scroll leaves the
\* menu flags, body overflow and the stars unchanged; a hamburger click, a
\* mobile-menu link click and a resize leave the reveal flags, the header
\* flag and the stars unchanged; a click on an anchor outside the mobile
\* menu leaves the menu flags and body overflow unchanged; only the load
\* event changes the number of stars.
C12_HandlersIndependent ==
    [][ LET t == lastEvent'.type
            menuSame == UNCHANGED << hamburgerClass, menuClass, bodyOverflow >>
        IN
        /\ t = "scroll" => (menuSame /\ stars' = stars)
        /\ (t \in {"hamburger", "resize"}
              \/ (t = "click" /\ lastEvent'.link.inMenu)) =>
                UNCHANGED << revealClass, headerClass, stars >>
        /\ (t = "click" /\ ~lastEvent'.link.inMenu) => menuSame
        /\ stars' # stars => t = "load"
      ]_vars

\* A click on an anchor outside the mobile menu while the menu is open, in
\* a page that has its stars, a revealed element and a scrolled header.
C12_Witness ==
    /\ lastEvent.type = "click"
    /\ ~lastEvent.link.inMenu
    /\ "active" \in menuClass
    /\ "active" \in hamburgerClass
    /\ bodyOverflow = "hidden"
    /\ stars = 200
    /\ "scrolled" \in headerClass
    /\ \E i \in RevealIds : "active" \in revealClass[i]

\* C13: in a document that has both elements, .hamburger carries "active"
\* if and only if .mobile-menu carries "active".
C13_IconAgreesWithMenu ==
    ({".hamburger", ".mobile-menu"} \subseteq dom) =>
        ("active" \in hamburgerClass <=> "active" \in menuClass)

\* A menu opened by a click, then closed by a resize above the breakpoint.
C13_Witness ==
    /\ ".mobile-menu" \in dom
    /\ lastEvent.type = "resize"
    /\ "active" \in prevMenu.hamburger
    /\ "active" \in prevMenu.menu
    /\ "active" \notin hamburgerClass
    /\ "active" \notin menuClass

\* C14: a resize event that leaves innerWidth at or below 968 leaves the
\* hamburger flag, the mobile-menu flag and body overflow as they were.
C14_ResizeBelowKeepsMenu ==
    (lastEvent.type = "resize" /\ innerWidth <= 968) =>
        /\ hamburgerClass = prevMenu.hamburger
        /\ menuClass = prevMenu.menu
        /\ bodyOverflow = prevMenu.overflow

\* A resize to exactly 968 with the menu open: it stays open and locked.
C14_Witness ==
    /\ lastEvent.type = "resize"
    /\ innerWidth = 968
    /\ "active" \in menuClass
    /\ "active" \in hamburgerClass
    /\ bodyOverflow = "hidden"

\* C15: a .reveal element carries "active" if and only if at some earlier
\* load or scroll event reveal() ran while the element's top was less than
\* innerHeight - 150; elements inside the threshold at page load become
\* active on the load event alone, and an element exactly on the line is
\* not activated.
C15_ActiveIffSeenInside ==
    \A i \in RevealIds : ("active" \in revealClass[i]) <=> everInside[i]

\* Right after the load event and before any scroll: one element revealed,
\* another exactly on the line and not revealed.
C15_Witness ==
    /\ lastEvent.type = "load"
    /\ ~handledScroll
    /\ \E i \in RevealIds : "active" \in revealClass[i]
    /\ \E j \in RevealIds :
          /\ RevealDocTop(j) - scrollY = innerHeight - 150
          /\ "active" \notin revealClass[j]

====
